---- MODULE Spec2Model ----
(***************************************************************************)
(* Credit fulfilment and receipts of the SaaS template: the Stripe webhook *)
(* (src/app/api/webhooks/stripe/route.ts), the confirmPayment server       *)
(* action (credits.action.ts), the receipt generator                       *)
(* (src/utils/receipts.ts), the receipt lookup getReceiptInfo with its     *)
(* validator, error handler and in-process limiter                         *)
(* (utils/receipt-handler), the download of a receipt by its token, the    *)
(* resend of a receipt's email and the rate limit of guest sessions        *)
(* (src/utils/guest-session.ts), over a shared database (credit balance,   *)
(* credit_transaction table, receipt table, guest_session table).          *)
(*                                                                         *)
(* Every await that touches the shared database is one step; the code      *)
(* between two such awaits is folded into the step that precedes it.       *)
(* A database call either takes effect or throws.  The withRateLimit       *)
(* wrapper of the server actions is taken to admit the call.               *)
(***************************************************************************)
EXTENDS Integers, Sequences, FiniteSets, TLC

\* ------------------------------------------------------------------ bounds
NumDeliveries == 2
NumConfirms == 1
NumReceiptCalls == 2
NumLookups == 2
NumInstances == 2
MaxTicks == 3
NumDownloads == 2
MaxDownloadCount == 2
NumResends == 1
NumGuestCalls == 2
MaxResent == 11
MaxFrameResent == 1
MaxGuestAdmitted == 51

Deliveries == 1..NumDeliveries
Confirms == 1..NumConfirms
ReceiptCalls == 1..NumReceiptCalls
Lookups == 1..NumLookups
Instances == 1..NumInstances
Downloads == 1..NumDownloads
Resends == 1..NumResends
GuestCalls == 1..NumGuestCalls

\* ------------------------------------------------------- JavaScript values
\* TLA+ strings are atomic: Chars spells the literals used as the `credits'
\* metadata field, so that parseInt works on characters as in JavaScript.
Undefined == "undefined"

Chars(s) ==
    CASE s = "1200" -> <<"1", "2", "0", "0">>
      [] s = "500" -> <<"5", "0", "0">>
      [] s = "1200x" -> <<"1", "2", "0", "0", "x">>
      [] s = "abc" -> <<"a", "b", "c">>
      [] s = "" -> <<>>
      [] OTHER -> <<"u", "n", "d", "e", "f", "i", "n", "e", "d">>

DigitVal(c) ==
    CASE c = "0" -> 0 [] c = "1" -> 1 [] c = "2" -> 2 [] c = "3" -> 3
      [] c = "4" -> 4 [] c = "5" -> 5 [] c = "6" -> 6 [] c = "7" -> 7
      [] c = "8" -> 8 [] c = "9" -> 9 [] OTHER -> -1

\* The value of the longest prefix of digits of cs, given the value acc of
\* the digits already read.
RECURSIVE DigitPrefix(_, _)
DigitPrefix(cs, acc) ==
    IF cs = <<>> \/ DigitVal(Head(cs)) < 0
    THEN acc
    ELSE DigitPrefix(Tail(cs), 10 * acc + DigitVal(Head(cs)))

\* parseInt(string): the integer spelled by the leading digits; NaN when
\* the string does not start with a digit (nan = TRUE).
parseInt(s) ==
    LET cs == Chars(s) IN
    IF cs = <<>> \/ DigitVal(Head(cs)) < 0
    THEN [nan |-> TRUE, val |-> 0]
    ELSE [nan |-> FALSE, val |-> DigitPrefix(cs, 0)]

\* !v for a string-or-undefined value.
Falsy(v) == v = Undefined \/ v = ""

\* ------------------------------------------------------------ the catalog
Users == {"u1", "u2"}

CREDIT_PACKAGES == [p100 |-> 1200, p50 |-> 500]

\* getCreditPackage(packageId): the package's credits, 0 for no package.
getCreditPackage(packageId) ==
    IF packageId = "p100" THEN CREDIT_PACKAGES.p100
    ELSE IF packageId = "p50" THEN CREDIT_PACKAGES.p50
    ELSE 0

\* The metadata a payment intent can carry (createPaymentIntent writes
\* userId, packageId, credits.toString(); the other values are tampered or
\* stale metadata).
MetadataValues ==
    [userId : {"u1", Undefined},
     packageId : {"p100", "p50", "bogus", Undefined},
     credits : {"1200", "500", "1200x", "abc", "", Undefined}]

PaymentIntentId == "pi_abc"

\* --------------------------------------------------------------- statuses
StatusOK == 200
StatusBadRequest == 400
StatusServerError == 500

VARIABLES
    webhookSecret,          \* process.env.STRIPE_WEBHOOK_SECRET
    paymentIntent,          \* the gateway's payment intent: status, metadata
    currentCredits,         \* userTable.currentCredits, per user
    creditTransactionTable, \* the ledger, a sequence of rows; id = index
    receiptTable,           \* the receipts, a sequence of rows; id = index
    webhook,                \* per delivery: position, request, response
    confirm,                \* per confirmPayment call: position, input, result
    receiptCall,            \* per createReceiptFromPayment call
    now,                    \* Date.now(), in milliseconds
    requests,               \* ReceiptRateLimit.requests of each instance
    lookup,                 \* per getReceiptInfo call
    download,               \* per GET of /api/receipts/download
    resend,                 \* per resend of a receipt email
    guestSession,           \* the row of a guest session
    guestCall               \* per checkGuestRateLimit call

vars == <<webhookSecret, paymentIntent, currentCredits, creditTransactionTable,
          receiptTable, webhook, confirm, receiptCall, now, requests,
          lookup, download, resend, guestSession, guestCall>>

dbVars == <<currentCredits, creditTransactionTable, receiptTable>>

lookupVars == <<now, requests, lookup>>

accessVars == <<download, resend>>

guestVars == <<guestSession, guestCall>>

IdleWebhook ==
    [pc |-> "idle", signature |-> "none", body |-> "", type |-> "",
     status |-> 0, error |-> "", transaction |-> 0, thrown |-> "",
     redelivered |-> FALSE]

IdleConfirm ==
    [pc |-> "idle", caller |-> "", packageId |-> "", revision |-> "",
     result |-> "", error |-> "", thrown |-> "", transaction |-> 0]

IdleLookup ==
    [pc |-> "idle", instance |-> 0, caller |-> "", paymentIntentId |-> "",
     at |-> 0, thrown |-> "", kind |-> "", error |-> "", result |-> "",
     rawUrl |-> "", receiptUrl |-> "", rawEmail |-> "", email |-> <<>>,
     throttledBefore |-> FALSE]

IdleDownload ==
    [pc |-> "idle", token |-> 0, format |-> "", receiptId |-> 0,
     status |-> 0, error |-> "", thrown |-> ""]

\* sent is history: the emails the calls of this slot have dispatched.
IdleResend ==
    [pc |-> "idle", revision |-> "", caller |-> "", receiptId |-> 0,
     status |-> 0, error |-> "", thrown |-> "", sent |-> 0]

IdleGuestCall ==
    [pc |-> "idle", apiCallCount |-> 0, lastApiCallAt |-> -1, at |-> 0,
     allowed |-> FALSE]

IdleReceiptCall ==
    [pc |-> "idle", userId |-> "", transactionId |-> 0,
     sendEmail |-> FALSE, charge |-> "", result |-> "", error |-> "",
     receiptId |-> 0, thrown |-> ""]

\* guest-session.ts
GUEST_SESSION_DURATION == 2 * 60 * 60 * 1000
GUEST_API_RATE_LIMIT == 50
GUEST_API_RATE_WINDOW == 60 * 60 * 1000

NoDate == -1

\* The row createGuestSession inserts at time 0.  exists is FALSE once the
\* row is deleted; admitted is history: the calls checkGuestRateLimit has
\* allowed.
NewGuestSession ==
    [exists |-> TRUE, apiCallCount |-> 0, lastApiCallAt |-> NoDate,
     expiresAt |-> GUEST_SESSION_DURATION, admitted |-> 0]

\* A session created more than GUEST_SESSION_DURATION ago.
ExpiredGuestSession ==
    [NewGuestSession EXCEPT !.expiresAt = 0 - GUEST_SESSION_DURATION]

\* No call is under way, the limiter's map is empty.
InitCalls ==
    /\ webhook = [d \in Deliveries |-> IdleWebhook]
    /\ confirm = [c \in Confirms |-> IdleConfirm]
    /\ receiptCall = [r \in ReceiptCalls |-> IdleReceiptCall]
    /\ now = 0
    /\ requests = [i \in Instances |-> [u \in Users |-> <<>>]]
    /\ lookup = [l \in Lookups |-> IdleLookup]
    /\ download = [w \in Downloads |-> IdleDownload]
    /\ resend = [s \in Resends |-> IdleResend]
    /\ guestCall = [g \in GuestCalls |-> IdleGuestCall]

Init ==
    /\ webhookSecret \in {Undefined, "whsec"}
    /\ paymentIntent \in [status : {"processing", "succeeded"},
                          metadata : MetadataValues]
    /\ currentCredits = [u \in Users |-> 0]
    /\ creditTransactionTable = <<>>
    /\ receiptTable = <<>>
    /\ guestSession = NewGuestSession
    /\ InitCalls

\* ------------------------------------------------------- database helpers
\* updateUserCredits(userId, n): currentCredits = currentCredits + n.  An
\* update of a user id that has no row changes nothing.
updateUserCredits(userId, creditsToAdd) ==
    IF userId \in Users
    THEN [currentCredits EXCEPT ![userId] = @ + creditsToAdd]
    ELSE currentCredits

\* logTransaction(row): insert the row and return it with its id.
NewTransactionId == Len(creditTransactionTable) + 1

logTransaction(userId, amount, paymentIntentId) ==
    Append(creditTransactionTable,
           [id |-> NewTransactionId, userId |-> userId, amount |-> amount,
            type |-> "PURCHASE", expirationDate |-> "now+years",
            paymentIntentId |-> paymentIntentId,
            receiptUrl |-> "", receiptEmailSent |-> FALSE, receiptId |-> 0])

\* ------------------------------------------------------------ the webhook
\* What a request can carry: a signature header (none, one that does not
\* verify, one that verifies) and a body (empty, or an event of some type;
\* type is the type the body declares, and an empty body declares none).
\* A signature verifies only for the exact bytes of an event the gateway
\* sent, and the gateway sends payment_intent.succeeded only for a
\* succeeded payment intent; anyone can send any body unsigned or with a
\* signature that does not verify.
EventTypes ==
    {"payment_intent.succeeded", "payment_intent.payment_failed",
     "charge.refunded"}

WebhookRequests ==
    {q \in [signature : {"none", "bad", "valid"},
            body : {"", "event"},
            type : EventTypes] :
        /\ q.signature = "valid" => q.body = "event"
        /\ q.body = "" => q.type = "charge.refunded"
        /\ (q.signature = "valid" /\ q.type = "payment_intent.succeeded")
               => paymentIntent.status = "succeeded"}

\* if (!userId || !packageId || !credits)
MissingMetadata(m) ==
    Falsy(m.userId) \/ Falsy(m.packageId) \/ Falsy(m.credits)

\* InvalidPackage without the comparison of the credit amounts.
InvalidPackage_noAmountCheck(m) ==
    getCreditPackage(m.packageId) = 0

\* if (!creditPackage || creditPackage.credits !== parseInt(credits))
InvalidPackage(m) ==
    \/ getCreditPackage(m.packageId) = 0
    \/ parseInt(m.credits).nan
    \/ getCreditPackage(m.packageId) # parseInt(m.credits).val

\* VerifyRequest without constructEvent's check of the signature.
VerifyRequest_unverified(secret, signature, body) ==
    IF secret = Undefined
    THEN [status |-> StatusServerError,
          error |-> "Webhook secret not configured"]
    ELSE IF signature = "none"
    THEN [status |-> StatusBadRequest, error |-> "Missing signature"]
    ELSE IF body = ""
    THEN [status |-> StatusBadRequest, error |-> "Empty body"]
    ELSE [status |-> 0, error |-> ""]

\* Lines 12-47 of the handler: the response that rejects the request, or
\* status 0 when the event is constructed.  constructEvent verifies the
\* signature over the raw body with the secret.
VerifyRequest(secret, signature, body) ==
    IF secret = Undefined
    THEN [status |-> StatusServerError,
          error |-> "Webhook secret not configured"]
    ELSE IF signature = "none"
    THEN [status |-> StatusBadRequest, error |-> "Missing signature"]
    ELSE IF body = ""
    THEN [status |-> StatusBadRequest, error |-> "Empty body"]
    ELSE IF signature # "valid"
    THEN [status |-> StatusBadRequest, error |-> "Invalid signature"]
    ELSE [status |-> 0, error |-> ""]

\* Dispatch whose default case throws instead of logging.
Dispatch_defaultThrows(type, m) ==
    IF type = "payment_intent.succeeded"
    THEN IF MissingMetadata(m) \/ InvalidPackage(m) THEN "break"
         ELSE "fulfil"
    ELSE IF type = "payment_intent.payment_failed" THEN "break"
    ELSE "throw"

\* switch (event.type): "fulfil" when the handler goes on to the database
\* calls, "break" when the case ends without them.
Dispatch(type, m) ==
    IF type = "payment_intent.succeeded"
    THEN IF MissingMetadata(m) \/ InvalidPackage(m) THEN "break"
         ELSE "fulfil"
    ELSE "break"

\* return NextResponse.json({ received: true })
Received == [status |-> StatusOK, error |-> ""]

\* A catch block that acknowledges the event.
HandlerFailed_acknowledges == Received

\* catch (error) { return NextResponse.json({ error: ... }, { status: 500 }) }
HandlerFailed ==
    [status |-> StatusServerError, error |-> "Webhook handler failed"]

\* AfterReceiptUrl without the block's own try/catch: what the block throws
\* reaches the handler's catch.
AfterReceiptUrl_propagates(thrown) ==
    IF thrown # "" THEN HandlerFailed ELSE Received

\* The response after the receipt-URL block, whose own catch logs what the
\* block threw.
AfterReceiptUrl(thrown) == Received

\* The handler from its entry to its first database call: the secret, the
\* header, the body, the signature, the event type and the metadata checks.
\* redelivered records, for the properties only, that the event arrived
\* after another delivery had completed its grant.
POST_receive(d) ==
    /\ webhook[d].pc = "idle"
    /\ \E q \in WebhookRequests :
        LET w == [webhook[d] EXCEPT
                    !.signature = q.signature, !.body = q.body,
                    !.type = q.type,
                    !.redelivered =
                        \E e \in Deliveries :
                            /\ webhook[e].pc = "done"
                            /\ webhook[e].transaction # 0]
            v == VerifyRequest(webhookSecret, q.signature, q.body)
            route == Dispatch(q.type, paymentIntent.metadata)
            done(res) ==
                webhook' = [webhook EXCEPT
                    ![d] = [w EXCEPT !.pc = "done", !.status = res.status,
                                     !.error = res.error]]
        IN
        IF v.status # 0 THEN done(v)
        ELSE IF route = "fulfil"
        THEN webhook' = [webhook EXCEPT
                ![d] = [w EXCEPT !.pc = "updateUserCredits"]]
        ELSE IF route = "break" THEN done(Received)
        ELSE done(HandlerFailed)
    /\ UNCHANGED <<lookupVars, accessVars, guestVars, webhookSecret, paymentIntent, dbVars, confirm, receiptCall>>

\* await updateUserCredits(userId, creditPackage.credits), or its throw,
\* which the handler's catch turns into the 500 response.
POST_updateUserCredits(d) ==
    /\ webhook[d].pc = "updateUserCredits"
    /\ \/ /\ currentCredits' =
                updateUserCredits(paymentIntent.metadata.userId,
                    getCreditPackage(paymentIntent.metadata.packageId))
          /\ webhook' = [webhook EXCEPT ![d].pc = "logTransaction"]
       \/ /\ UNCHANGED currentCredits
          /\ webhook' = [webhook EXCEPT ![d].pc = "done",
                ![d].status = HandlerFailed.status,
                ![d].error = HandlerFailed.error,
                ![d].thrown = "updateUserCredits"]
    /\ UNCHANGED <<lookupVars, accessVars, guestVars, webhookSecret, paymentIntent, creditTransactionTable,
                   receiptTable, confirm, receiptCall>>

TransactionArgs_noReference(m) ==
    [userId |-> m.userId, amount |-> getCreditPackage(m.packageId),
     paymentIntentId |-> ""]

\* What the handler passes to logTransaction: the metadata's user, the
\* package's credits and the payment intent's id (with the type PURCHASE
\* and an expiration date, which logTransaction writes).
TransactionArgs(m) ==
    [userId |-> m.userId, amount |-> getCreditPackage(m.packageId),
     paymentIntentId |-> PaymentIntentId]

\* const transaction = await logTransaction({...}), or its throw.
POST_logTransaction(d) ==
    /\ webhook[d].pc = "logTransaction"
    /\ \/ /\ creditTransactionTable' =
                logTransaction(TransactionArgs(paymentIntent.metadata).userId,
                    TransactionArgs(paymentIntent.metadata).amount,
                    TransactionArgs(paymentIntent.metadata).paymentIntentId)
          /\ webhook' = [webhook EXCEPT ![d].pc = "receiptUrl",
                                        ![d].transaction = NewTransactionId]
       \/ /\ UNCHANGED creditTransactionTable
          /\ webhook' = [webhook EXCEPT ![d].pc = "done",
                ![d].status = HandlerFailed.status,
                ![d].error = HandlerFailed.error,
                ![d].thrown = "logTransaction"]
    /\ UNCHANGED <<lookupVars, accessVars, guestVars, webhookSecret, paymentIntent, currentCredits, receiptTable,
                   confirm, receiptCall>>

\* The receipt URL of the charge: stripe.charges.list, then the update of
\* the transaction row, inside their own try/catch; the handler then
\* acknowledges the event.  (The earlier revision of the handler has no
\* such block: it behaves as the case of no charge.)  thrown is what the
\* block threw; url is whether a charge with a receipt_url was found and
\* stored.
POST_receiptUrl(d) ==
    /\ webhook[d].pc = "receiptUrl"
    /\ \E thrown \in {"", "charges.list", "db.update"}, url \in BOOLEAN :
        /\ thrown # "" => ~url
        /\ creditTransactionTable' =
            IF url
            THEN [creditTransactionTable EXCEPT
                    ![webhook[d].transaction].receiptUrl = "stripe",
                    ![webhook[d].transaction].receiptEmailSent = TRUE]
            ELSE creditTransactionTable
        /\ webhook' = [webhook EXCEPT ![d].pc = "done",
                ![d].status = AfterReceiptUrl(thrown).status,
                ![d].error = AfterReceiptUrl(thrown).error,
                ![d].thrown = thrown]
    /\ UNCHANGED <<lookupVars, accessVars, guestVars, webhookSecret, paymentIntent, currentCredits, receiptTable,
                   confirm, receiptCall>>

\* --------------------------------------------------------- confirmPayment
\* The client-initiated confirmation.  Two revisions of the action exist:
\* the one that grants the credits itself after verifying the payment
\* ("granting") and the one that only verifies and leaves the grant to the
\* webhook ("verifying").
ConfirmRevisions == {"granting", "verifying"}

NoSession == "none"

ConfirmInputs ==
    [caller : Users \cup {NoSession},
     packageId : {"p100", "p50", "bogus"},
     revision : ConfirmRevisions]

\* The message of the error the catch block rethrows for the error thrown
\* inside the try block.
ConfirmCatch(revision, thrown) ==
    IF revision = "granting" THEN "Failed to process payment"
    ELSE IF thrown = "Payment not completed"
    THEN "Payment was not completed successfully. Please try again."
    ELSE IF thrown = "Invalid payment intent"
    THEN "Payment verification failed. Please contact support if this persists."
    ELSE "Unable to confirm payment. Please contact support for assistance."

InvalidPaymentIntent_anyUser(m, caller, packageId) ==
    \/ m.packageId # packageId
    \/ parseInt(m.credits).nan
    \/ parseInt(m.credits).val # getCreditPackage(packageId)

\* The metadata check of confirmPayment: TRUE when the payment intent is
\* not the caller's, not for this package, or not for its credit amount.
InvalidPaymentIntent(m, caller, packageId) ==
    \/ m.userId # caller
    \/ m.packageId # packageId
    \/ parseInt(m.credits).nan
    \/ parseInt(m.credits).val # getCreditPackage(packageId)

\* confirmPayment from its entry to its first database call: the session,
\* the package, the payment intent's status and its metadata.
confirmPayment_verify(c) ==
    /\ confirm[c].pc = "idle"
    /\ \E in \in ConfirmInputs, retrieved \in BOOLEAN :
        LET k == [confirm[c] EXCEPT !.caller = in.caller,
                                    !.packageId = in.packageId,
                                    !.revision = in.revision]
            fail(thrown) ==
                confirm' = [confirm EXCEPT
                    ![c] = [k EXCEPT !.pc = "done", !.result = "error",
                                     !.thrown = thrown,
                                     !.error = ConfirmCatch(in.revision, thrown)]]
        IN
        IF in.caller = NoSession
        THEN confirm' = [confirm EXCEPT
                ![c] = [k EXCEPT !.pc = "done", !.result = "error",
                                 !.thrown = "Unauthorized",
                                 !.error = "Unauthorized"]]
        ELSE IF getCreditPackage(in.packageId) = 0
        THEN fail("Invalid package")
        ELSE IF ~retrieved
        THEN fail("paymentIntents.retrieve")
        ELSE IF paymentIntent.status # "succeeded"
        THEN fail("Payment not completed")
        ELSE IF InvalidPaymentIntent(paymentIntent.metadata, in.caller,
                                     in.packageId)
        THEN fail("Invalid payment intent")
        ELSE IF in.revision = "granting"
        THEN confirm' = [confirm EXCEPT
                ![c] = [k EXCEPT !.pc = "updateUserCredits"]]
        ELSE confirm' = [confirm EXCEPT
                ![c] = [k EXCEPT !.pc = "done", !.result = "success"]]
    /\ UNCHANGED <<lookupVars, accessVars, guestVars, webhookSecret, paymentIntent, dbVars, webhook, receiptCall>>

\* await updateUserCredits(session.user.id, creditPackage.credits)
confirmPayment_updateUserCredits(c) ==
    /\ confirm[c].pc = "updateUserCredits"
    /\ \/ /\ currentCredits' =
                updateUserCredits(confirm[c].caller,
                                  getCreditPackage(confirm[c].packageId))
          /\ confirm' = [confirm EXCEPT ![c].pc = "logTransaction"]
       \/ /\ UNCHANGED currentCredits
          /\ confirm' = [confirm EXCEPT ![c].pc = "done",
                ![c].result = "error", ![c].thrown = "updateUserCredits",
                ![c].error = ConfirmCatch("granting", "updateUserCredits")]
    /\ UNCHANGED <<lookupVars, accessVars, guestVars, webhookSecret, paymentIntent, creditTransactionTable,
                   receiptTable, webhook, receiptCall>>

\* await logTransaction({...}); return { success: true }
confirmPayment_logTransaction(c) ==
    /\ confirm[c].pc = "logTransaction"
    /\ \/ /\ creditTransactionTable' =
                logTransaction(confirm[c].caller,
                               getCreditPackage(confirm[c].packageId),
                               PaymentIntentId)
          /\ confirm' = [confirm EXCEPT ![c].pc = "done",
                ![c].result = "success",
                ![c].transaction = NewTransactionId]
       \/ /\ UNCHANGED creditTransactionTable
          /\ confirm' = [confirm EXCEPT ![c].pc = "done",
                ![c].result = "error", ![c].thrown = "logTransaction",
                ![c].error = ConfirmCatch("granting", "logTransaction")]
    /\ UNCHANGED <<lookupVars, accessVars, guestVars, webhookSecret, paymentIntent, currentCredits, receiptTable,
                   webhook, receiptCall>>

\* ----------------------------------------------- createReceiptFromPayment
ReceiptInputs ==
    [userId : Users, sendEmail : BOOLEAN,
     transactionId : 1..(Len(creditTransactionTable) + 1)]

NewReceiptId == Len(receiptTable) + 1

ReceiptThrow(r, k, thrown) ==
    receiptCall' = [receiptCall EXCEPT
        ![r] = [k EXCEPT !.pc = "done", !.result = "error",
                         !.thrown = thrown,
                         !.error = "Failed to create receipt"]]

\* What the gateway has for the payment's latest charge: a payment method
\* with its card ("card"), no charge or no payment method on it ("none"), or
\* a payment method id whose retrieval throws ("throws").
ChargeData == {"card", "none", "throws"}

PaymentMethod_propagates(charge) ==
    CASE charge = "card" -> [thrown |-> "", type |-> "card", last4 |-> "4242"]
      [] charge = "throws" -> [thrown |-> "paymentMethods.retrieve",
                               type |-> Undefined, last4 |-> Undefined]
      [] OTHER -> [thrown |-> "", type |-> Undefined, last4 |-> Undefined]

\* if (charge?.payment_method) { try { paymentMethod = ... retrieve(...) }
\* catch (pmError) { console.warn(...) } }: a retrieval that throws leaves
\* paymentMethod null and the generator goes on.
PaymentMethod(charge) ==
    CASE charge = "card" -> [thrown |-> "", type |-> "card", last4 |-> "4242"]
      [] OTHER -> [thrown |-> "", type |-> Undefined, last4 |-> Undefined]

\* From the entry to the insert of the receipt row: the payment intent is
\* retrieved from the gateway, the user and the transaction are read, the
\* payment method is fetched best-effort (card), the receipt number and the
\* download token are generated, the HTML is rendered, the row is inserted.
createReceiptFromPayment_insert(r) ==
    /\ receiptCall[r].pc = "idle"
    /\ \E in \in ReceiptInputs, retrieved \in BOOLEAN,
          charge \in ChargeData, inserted \in BOOLEAN :
        LET k == [receiptCall[r] EXCEPT !.userId = in.userId,
                                        !.sendEmail = in.sendEmail,
                                        !.charge = charge,
                                        !.transactionId = in.transactionId]
            paymentMethod == PaymentMethod(charge)
        IN
        IF ~retrieved
        THEN ReceiptThrow(r, k, "paymentIntents.retrieve")
                /\ UNCHANGED receiptTable
        ELSE IF paymentIntent.status # "succeeded"
        THEN ReceiptThrow(r, k, "Payment intent is not successful")
                /\ UNCHANGED receiptTable
        ELSE IF in.transactionId \notin DOMAIN creditTransactionTable
        THEN ReceiptThrow(r, k, "User or transaction not found")
                /\ UNCHANGED receiptTable
        ELSE IF paymentMethod.thrown # ""
        THEN ReceiptThrow(r, k, paymentMethod.thrown)
                /\ UNCHANGED receiptTable
        ELSE IF ~inserted
        THEN ReceiptThrow(r, k, "db.insert") /\ UNCHANGED receiptTable
        ELSE /\ receiptTable' = Append(receiptTable,
                    [id |-> NewReceiptId, userId |-> in.userId,
                     transactionId |-> in.transactionId,
                     paymentIntentId |-> PaymentIntentId,
                     receiptNumber |-> NewReceiptId,
                     amount |-> "paymentIntent.amount",
                     paymentMethod |->
                        IF paymentMethod.type = "card"
                        THEN "Credit Card" ELSE "Payment Card",
                     cardLast4 |-> paymentMethod.last4,
                     htmlContent |-> "html",
                     downloadToken |-> NewReceiptId,
                     emailSent |-> FALSE, emailDelivered |-> FALSE,
                     downloadCount |-> 0, lastDownloaded |-> NoDate])
             /\ receiptCall' = [receiptCall EXCEPT
                    ![r] = [k EXCEPT !.pc = "link",
                                     !.receiptId = NewReceiptId]]
    /\ UNCHANGED <<lookupVars, accessVars, guestVars, webhookSecret, paymentIntent, currentCredits,
                   creditTransactionTable, webhook, confirm>>

linkReceipt_rewrites(transactionId, receiptId) ==
    [creditTransactionTable EXCEPT
        ![transactionId].receiptId = receiptId,
        ![transactionId].receiptUrl = "download",
        ![transactionId].paymentIntentId = "receipt"]

\* The UPDATE of the transaction row: receiptId and receiptUrl are set.
linkReceipt(transactionId, receiptId) ==
    [creditTransactionTable EXCEPT
        ![transactionId].receiptId = receiptId,
        ![transactionId].receiptUrl = "download"]

\* The update of the transaction row with the receipt's id and URL.
createReceiptFromPayment_link(r) ==
    /\ receiptCall[r].pc = "link"
    /\ \/ /\ creditTransactionTable' =
                linkReceipt(receiptCall[r].transactionId,
                            receiptCall[r].receiptId)
          /\ receiptCall' = [receiptCall EXCEPT ![r].pc = "email"]
       \/ /\ UNCHANGED creditTransactionTable
          /\ ReceiptThrow(r, receiptCall[r], "db.update")
    /\ UNCHANGED <<lookupVars, accessVars, guestVars, webhookSecret, paymentIntent, currentCredits, receiptTable,
                   webhook, confirm>>

AfterEmail_propagates(failed) ==
    IF failed = "" THEN "returned" ELSE "error"

\* catch (emailError) { console.error(...) } and then return receipt.id:
\* whatever the send or the mark threw, the generator returns.
AfterEmail(failed) == "returned"

\* if (sendEmail && user.email) { try { send; markReceiptEmailSent }
\* catch { log } }  return receipt.id
createReceiptFromPayment_email(r) ==
    /\ receiptCall[r].pc = "email"
    /\ \/ \* no email requested, or the send or the mark throws
          /\ UNCHANGED receiptTable
          /\ \E failed \in {"", "sendReceiptEmail", "markReceiptEmailSent"} :
                /\ (failed = "") = ~receiptCall[r].sendEmail
                /\ IF AfterEmail(failed) = "returned"
                   THEN receiptCall' = [receiptCall EXCEPT ![r].pc = "done",
                            ![r].result = "returned", ![r].thrown = failed]
                   ELSE ReceiptThrow(r, receiptCall[r], failed)
       \/ \* the email is sent and marked
          /\ receiptCall[r].sendEmail
          /\ receiptTable' = [receiptTable EXCEPT
                ![receiptCall[r].receiptId].emailSent = TRUE]
          /\ receiptCall' = [receiptCall EXCEPT ![r].pc = "done",
                ![r].result = "returned"]
    /\ UNCHANGED <<lookupVars, accessVars, guestVars, webhookSecret, paymentIntent, currentCredits,
                   creditTransactionTable, webhook, confirm>>

\* --------------------------------------------------------- receipt-handler
\* The strings the handler looks into are spelled as sequences; includes is
\* String.prototype.includes on them.
Includes(s, t) ==
    \E i \in 1..(Len(s) - Len(t) + 1) : SubSeq(s, i, i + Len(t) - 1) = t

\* error.message.toLowerCase() of the errors getReceiptInfo can catch, as
\* its words (a full stop is a word of its own); none of the keywords of
\* handleError occurs inside a word of these messages, so includes on the
\* words decides as includes on the characters does.
Words(message) ==
    CASE message = "Invalid payment intent ID format" ->
            <<"invalid", "payment", "intent", "id", "format">>
      [] message = "Too many receipt requests. Please try again later."
            -> <<"too", "many", "receipt", "requests", ".", "please", "try",
               "again", "later", ".">>
      [] message = "Transaction not found or unauthorized" ->
            <<"transaction", "not", "found", "or", "unauthorized">>
      [] message = "Unauthorized" ->
            <<"unauthorized">>
      [] message = "Transaction not found" ->
            <<"transaction", "not", "found">>
      [] message = "Payment not completed" ->
            <<"payment", "not", "completed">>
      [] message = "Receipt not available in test mode. This transaction was processed with test data."
            -> <<"receipt", "not", "available", "in", "test", "mode", ".",
               "this", "transaction", "was", "processed", "with", "test",
               "data", ".">>
      [] message = "Receipt information is not available for this transaction."
            -> <<"receipt", "information", "is", "not", "available", "for",
               "this", "transaction", ".">>
      [] message = "D1_ERROR" ->
            <<"d1_error">>
      [] message = "StripeCardError" ->
            <<"your", "card", "was", "declined", ".">>
      [] OTHER -> <<>>

StripeErrorTypes ==
    {"StripeInvalidRequestError", "StripeAuthenticationError",
     "StripeConnectionError", "StripeAPIError", "StripeRateLimitError",
     "StripeCardError"}

\* ReceiptErrorHandler.handleError(error); error is the type of a Stripe
\* error, the message of an Error, or Undefined for any other thrown value.
handleError_echoes(error) ==
    [type |-> "VALIDATION_ERROR", retryable |-> TRUE, userMessage |-> error]

handleError(error) ==
    LET message == Words(error) IN
    CASE error = "StripeInvalidRequestError" ->
            [type |-> "STRIPE_ERROR", retryable |-> FALSE, userMessage |->
             "Receipt information is not available for this transaction."]
      [] error = "StripeAuthenticationError" ->
            [type |-> "STRIPE_ERROR", retryable |-> TRUE, userMessage |->
             "Unable to verify receipt information. Please try again later."]
      [] error \in {"StripeConnectionError", "StripeAPIError"} ->
            [type |-> "NETWORK_ERROR", retryable |-> TRUE, userMessage |->
             "Unable to connect to payment service. Please try again later."]
      [] error = "StripeRateLimitError" ->
            [type |-> "NETWORK_ERROR", retryable |-> TRUE, userMessage |->
             "Service is temporarily busy. Please try again in a moment."]
      [] error = Undefined ->
            [type |-> "VALIDATION_ERROR", retryable |-> TRUE, userMessage |->
             "An unexpected error occurred. Please try again later."]
      [] OTHER ->
            IF \/ Includes(message, <<"unauthorized">>)
               \/ Includes(message, <<"access", "denied">>)
            THEN [type |-> "AUTHORIZATION_ERROR", retryable |-> FALSE,
                  userMessage |->
                  "You do not have permission to view this receipt."]
            ELSE IF \/ Includes(message, <<"not", "found">>)
                    \/ Includes(message, <<"does", "not", "exist">>)
            THEN [type |-> "NOT_FOUND_ERROR", retryable |-> FALSE,
                  userMessage |-> "Receipt not found for this transaction."]
            ELSE IF \/ Includes(message, <<"test", "mode">>)
                    \/ Includes(message, <<"test", "data">>)
            THEN [type |-> "VALIDATION_ERROR", retryable |-> FALSE,
                  userMessage |->
                  "Receipt not available for test transactions. Try with a live payment in production."]
            ELSE IF \/ Includes(message, <<"network">>)
                    \/ Includes(message, <<"timeout">>)
                    \/ Includes(message, <<"connection">>)
            THEN [type |-> "NETWORK_ERROR", retryable |-> TRUE,
                  userMessage |->
                  "Network error occurred. Please check your connection and try again."]
            ELSE [type |-> "VALIDATION_ERROR", retryable |-> TRUE,
                  userMessage |->
                  "Unable to process receipt request. Please try again."]

\* The payment intent ids a caller can ask for, spelled.
IdChars(id) ==
    CASE id = "pi_abc" -> <<"p", "i", "_", "a", "b", "c">>
      [] id = "pi_zzz" -> <<"p", "i", "_", "z", "z", "z">>
      [] id = "pi_" -> <<"p", "i", "_">>
      [] id = "pi_a-b" -> <<"p", "i", "_", "a", "-", "b">>
      [] OTHER -> <<>>

LookupIds == {PaymentIntentId, "pi_zzz", "pi_", "pi_a-b"}

IdAlphabet ==
    {"a", "b", "c", "d", "e", "f", "g", "h", "i", "j", "k", "l", "m", "n",
     "o", "p", "q", "r", "s", "t", "u", "v", "w", "x", "y", "z",
     "A", "B", "C", "D", "E", "F", "G", "H", "I", "J", "K", "L", "M", "N",
     "O", "P", "Q", "R", "S", "T", "U", "V", "W", "X", "Y", "Z",
     "0", "1", "2", "3", "4", "5", "6", "7", "8", "9", "_"}

\* /^pi_[a-zA-Z0-9_]+$/.test(paymentIntentId)
isValidPaymentIntentId_any(paymentIntentId) == TRUE

isValidPaymentIntentId(paymentIntentId) ==
    LET c == IdChars(paymentIntentId) IN
    /\ Len(c) >= 4
    /\ SubSeq(c, 1, 3) = <<"p", "i", "_">>
    /\ \A i \in 4..Len(c) : c[i] \in IdAlphabet

\* new URL(url): whether the string parses, and its hostname.
Null == "null"

URL(url) ==
    CASE url = "https://pay.stripe.com/r1" ->
            [ok |-> TRUE, hostname |->
                <<"p", "a", "y", ".", "s", "t", "r", "i", "p", "e", ".", "c",
                  "o", "m">>]
      [] url = "https://stripe.com/r1" ->
            [ok |-> TRUE, hostname |->
                <<"s", "t", "r", "i", "p", "e", ".", "c", "o", "m">>]
      [] url = "https://files.stripe-images.com/r1" ->
            [ok |-> TRUE, hostname |->
                <<"f", "i", "l", "e", "s", ".", "s", "t", "r", "i", "p", "e",
                  "-", "i", "m", "a", "g", "e", "s", ".", "c", "o", "m">>]
      [] url = "https://example.com/r1" ->
            [ok |-> TRUE, hostname |->
                <<"e", "x", "a", "m", "p", "l", "e", ".", "c", "o", "m">>]
      [] url = "https://evilstripe.com/r1" ->
            [ok |-> TRUE, hostname |->
                <<"e", "v", "i", "l", "s", "t", "r", "i", "p", "e", ".", "c",
                  "o", "m">>]
      [] url = "https://stripe.com.evil.io/r1" ->
            [ok |-> TRUE, hostname |->
                <<"s", "t", "r", "i", "p", "e", ".", "c", "o", "m", ".", "e",
                  "v", "i", "l", ".", "i", "o">>]
      [] url = "https://evil.io/stripe.com" ->
            [ok |-> TRUE, hostname |->
                <<"e", "v", "i", "l", ".", "i", "o">>]
      [] OTHER -> [ok |-> FALSE, hostname |-> <<>>]

ReceiptUrls ==
    {Null, "", "not a url", "https://pay.stripe.com/r1",
     "https://stripe.com/r1", "https://files.stripe-images.com/r1",
     "https://example.com/r1", "https://evilstripe.com/r1",
     "https://stripe.com.evil.io/r1", "https://evil.io/stripe.com"}

\* ReceiptValidator.sanitizeReceiptUrl(url)
sanitizeReceiptUrl(url) ==
    IF url = Null \/ url = "" THEN Null
    ELSE IF ~URL(url).ok THEN Null
    ELSE IF \/ Includes(URL(url).hostname, <<"s", "t", "r", "i", "p", "e", ".", "c", "o", "m">>)
            \/ Includes(URL(url).hostname, <<"s", "t", "r", "i", "p", "e", "-", "i", "m", "a", "g", "e",
                                   "s", ".", "c", "o", "m">>)
    THEN url
    ELSE Null

\* The billing emails a charge can carry, spelled; Null is a charge without
\* billing details or without an email in them.
EmailChars(email) ==
    CASE email = "jane@ex.io" ->
            <<"j", "a", "n", "e", "@", "e", "x", ".", "i", "o">>
      [] email = "jo@ex.io" ->
            <<"j", "o", "@", "e", "x", ".", "i", "o">>
      [] email = "jane" ->
            <<"j", "a", "n", "e">>
      [] email = "jane@doe@ex.io" ->
            <<"j", "a", "n", "e", "@", "d", "o", "e", "@", "e", "x", ".", "i", "o">>
      [] email = "@ex.io" ->
            <<"@", "e", "x", ".", "i", "o">>
      [] OTHER -> <<>>

BillingEmails ==
    {Null, "jane@ex.io", "jo@ex.io", "jane", "jane@doe@ex.io", "@ex.io"}

\* email.split('@')
RECURSIVE Split(_)
Split(s) ==
    IF \A i \in DOMAIN s : s[i] # "@" THEN <<s>>
    ELSE LET at == CHOOSE i \in DOMAIN s :
                        s[i] = "@" /\ \A j \in 1..(i - 1) : s[j] # "@"
         IN  <<SubSeq(s, 1, at - 1)>> \o Split(SubSeq(s, at + 1, Len(s)))

\* '*'.repeat(n)
Stars(n) == [i \in 1..n |-> "*"]

\* ReceiptValidator.maskSensitiveData(receiptInfo), on the billing email:
\* const [localPart, domain] = email.split('@'); if both are truthy the
\* local part keeps its first 2 characters and stars replace the others.
maskSensitiveData(email) ==
    LET parts == Split(EmailChars(email))
        localPart == parts[1]
        domain == IF Len(parts) >= 2 THEN parts[2] ELSE <<>>
        maskedLocal == IF Len(localPart) > 2
                       THEN SubSeq(localPart, 1, 2)
                                \o Stars(Len(localPart) - 2)
                       ELSE localPart
    IN  IF email = Null \/ email = "" THEN <<>>
        ELSE IF localPart # <<>> /\ domain # <<>>
        THEN maskedLocal \o <<"@">> \o domain
        ELSE EmailChars(email)

\* ReceiptRateLimit
MAX_REQUESTS_PER_MINUTE == 10
WINDOW_MS == 60 * 1000

RecentRequests_inclusive(userRequests, t) ==
    LET Recent(timestamp) == t - timestamp <= WINDOW_MS
    IN  SelectSeq(userRequests, Recent)

\* userRequests.filter(timestamp => now - timestamp < this.WINDOW_MS)
RecentRequests(userRequests, t) ==
    LET Recent(timestamp) == t - timestamp < WINDOW_MS
    IN  SelectSeq(userRequests, Recent)

canMakeRequest_offByOne(recentRequests) ==
    Len(recentRequests) <= MAX_REQUESTS_PER_MINUTE

\* return recentRequests.length < this.MAX_REQUESTS_PER_MINUTE
canMakeRequest(recentRequests) ==
    Len(recentRequests) < MAX_REQUESTS_PER_MINUTE

recordRequest_always(recentRequests, admitted, t) ==
    Append(recentRequests, t)

\* if (!canMakeRequest(id)) throw ...; recordRequest(id): the push of now
\* happens only past the throw.
recordRequest(recentRequests, admitted, t) ==
    IF admitted THEN Append(recentRequests, t) ELSE recentRequests

\* ---------------------------------------------------------- getReceiptInfo
TooManyRequests == "Too many receipt requests. Please try again later."

\* catch (error) { throw new Error(handleError(error).userMessage) }
LookupThrow(l, k, thrown) ==
    lookup' = [lookup EXCEPT
        ![l] = [k EXCEPT !.pc = "done", !.result = "error",
                         !.thrown = thrown,
                         !.kind = handleError(thrown).type,
                         !.error = handleError(thrown).userMessage]]

\* From the entry to the first database read: the session, the format of
\* the id, the limiter's check and the record of the request.  Nothing is
\* awaited between canMakeRequest and recordRequest, so on one instance
\* they are one step.  A call slot is reused once its call has ended;
\* throttledBefore is history: an earlier call of the slot by the same
\* caller was throttled.
getReceiptInfo_begin(l, instances, callers, ids) ==
    /\ lookup[l].pc \in {"idle", "done"}
    /\ \E i \in instances, caller \in callers, id \in ids :
        LET k == [IdleLookup EXCEPT !.instance = i, !.caller = caller,
                                    !.paymentIntentId = id, !.at = now,
                                    !.throttledBefore =
                                        /\ lookup[l].caller = caller
                                        /\ \/ lookup[l].throttledBefore
                                           \/ lookup[l].thrown =
                                                TooManyRequests]
            recentRequests == RecentRequests(requests[i][caller], now)
            admitted == canMakeRequest(recentRequests)
        IN
        IF caller = NoSession
        THEN /\ lookup' = [lookup EXCEPT
                    ![l] = [k EXCEPT !.pc = "done", !.result = "error",
                                     !.thrown = "Unauthorized",
                                     !.error = "Unauthorized"]]
             /\ UNCHANGED requests
        ELSE IF ~isValidPaymentIntentId(id)
        THEN /\ LookupThrow(l, k, "Invalid payment intent ID format")
             /\ UNCHANGED requests
        ELSE /\ requests' = [requests EXCEPT ![i][caller] =
                    recordRequest(recentRequests, admitted, now)]
             /\ IF admitted
                THEN lookup' = [lookup EXCEPT
                        ![l] = [k EXCEPT !.pc = "getCreditTransactions"]]
                ELSE LookupThrow(l, k, TooManyRequests)
    /\ UNCHANGED <<accessVars, guestVars, webhookSecret, paymentIntent, dbVars,
                   webhook, confirm,
                   receiptCall, now>>

NotOwnedError_distinguishes(exists) ==
    IF exists THEN "Unauthorized" ELSE "Transaction not found"

\* if (!userTransaction) throw new Error("Transaction not found or
\* unauthorized"): the query is by the caller's id, so a reference that
\* belongs to another user and one that no row has both find nothing.
NotOwnedError(exists) == "Transaction not found or unauthorized"

\* getCreditTransactions({ userId: session.user.id, ... }) and the find by
\* paymentIntentId.
getReceiptInfo_getCreditTransactions(l) ==
    /\ lookup[l].pc = "getCreditTransactions"
    /\ \E failed \in BOOLEAN :
        LET rows == DOMAIN creditTransactionTable
            found == \E t \in rows :
                /\ creditTransactionTable[t].userId = lookup[l].caller
                /\ creditTransactionTable[t].paymentIntentId =
                        lookup[l].paymentIntentId
            exists == \E t \in rows :
                creditTransactionTable[t].paymentIntentId =
                    lookup[l].paymentIntentId
        IN
        IF failed
        THEN LookupThrow(l, lookup[l], "D1_ERROR")
        ELSE IF ~found
        THEN LookupThrow(l, lookup[l], NotOwnedError(exists))
        ELSE lookup' = [lookup EXCEPT ![l].pc = "retrieve"]
    /\ UNCHANGED <<accessVars, guestVars, webhookSecret, paymentIntent, dbVars,
                   webhook, confirm,
                   receiptCall, now, requests>>

\* paymentIntents.retrieve, the charge data, and the receipt information
\* built from it.
getReceiptInfo_retrieve(l) ==
    /\ lookup[l].pc = "retrieve"
    /\ \/ \* the gateway throws
          \E thrown \in StripeErrorTypes : LookupThrow(l, lookup[l], thrown)
       \/ \* the gateway answers
          IF paymentIntent.status # "succeeded"
          THEN LookupThrow(l, lookup[l], "Payment not completed")
          ELSE \/ \* no charge data
                  \E development \in BOOLEAN :
                    LookupThrow(l, lookup[l],
                        IF development
                        THEN "Receipt not available in test mode. This transaction was processed with test data."
                        ELSE "Receipt information is not available for this transaction.")
               \/ \* charge data
                  \E url \in ReceiptUrls, email \in BillingEmails :
                    lookup' = [lookup EXCEPT ![l].pc = "done",
                        ![l].result = "receiptInfo", ![l].rawUrl = url,
                        ![l].receiptUrl = sanitizeReceiptUrl(url),
                        ![l].rawEmail = email,
                        ![l].email = maskSensitiveData(email)]
    /\ UNCHANGED <<accessVars, guestVars, webhookSecret, paymentIntent, dbVars,
                   webhook, confirm,
                   receiptCall, now, requests>>

\* The clock: Date.now() moves on by half a window at a time.
\* ------------------------------------------------ GET /api/receipts/download
\* The token of the query string: none, the tokens of two receipts, and
\* one no receipt has.
NoToken == 0

DownloadTokens == {NoToken, 1, 2, 9}

DownloadFormats == {"html", "pdf", "txt"}

\* getReceiptByToken: the receipts whose downloadToken is the token.
getReceiptByToken(token) ==
    {i \in DOMAIN receiptTable : receiptTable[i].downloadToken = token}

DownloadEnd(w, k, status, error) ==
    download' = [download EXCEPT
        ![w] = [k EXCEPT !.pc = "done", !.status = status,
                         !.error = error]]

\* The handler up to the lookup of the receipt.  No session is read.  A
\* slot is reused once its request has been answered.
download_getReceiptByToken(w) ==
    /\ download[w].pc \in {"idle", "done"}
    /\ \E token \in DownloadTokens, format \in DownloadFormats,
          failed \in BOOLEAN :
        /\ \A i \in getReceiptByToken(token) :
                receiptTable[i].downloadCount < MaxDownloadCount
        /\ LET k == [IdleDownload EXCEPT !.token = token, !.format = format]
                found == getReceiptByToken(token)
            IN
            IF token = NoToken
            THEN DownloadEnd(w, k, 400, "Download token is required")
            ELSE IF failed
            THEN DownloadEnd(w, [k EXCEPT !.thrown = "db.query"], 500,
                             "Internal server error")
            ELSE IF found = {}
            THEN DownloadEnd(w, k, 404, "Receipt not found or invalid token")
            ELSE download' = [download EXCEPT
                    ![w] = [k EXCEPT
                        !.pc = "stats",
                        !.receiptId =
                            receiptTable[CHOOSE i \in found : TRUE].id]]
    /\ UNCHANGED <<lookupVars, guestVars, resend, webhookSecret,
                   paymentIntent, dbVars, webhook, confirm, receiptCall>>

updateReceiptDownloadStats_overwrites(receiptId) ==
    [i \in DOMAIN receiptTable |->
        IF receiptTable[i].id = receiptId
        THEN [receiptTable[i] EXCEPT !.downloadCount = 1,
                                     !.lastDownloaded = now]
        ELSE receiptTable[i]]

\* updateReceiptDownloadStats: one UPDATE, downloadCount = downloadCount + 1.
updateReceiptDownloadStats(receiptId) ==
    [i \in DOMAIN receiptTable |->
        IF receiptTable[i].id = receiptId
        THEN [receiptTable[i] EXCEPT !.downloadCount = @ + 1,
                                     !.lastDownloaded = now]
        ELSE receiptTable[i]]

\* The response for the format asked, the receipt's stored HTML at hand.
DownloadStatus(format) ==
    CASE format = "html" -> [status |-> 200, error |-> ""]
      [] format = "pdf"  ->
            [status |-> 501, error |-> "PDF generation not yet implemented"]
      [] OTHER -> [status |-> 400,
                   error |-> "Unsupported format. Use 'html' or 'pdf'"]

\* The update of the statistics and the response that follows it.
download_updateReceiptDownloadStats(w) ==
    /\ download[w].pc = "stats"
    /\ \/ /\ receiptTable' =
                    updateReceiptDownloadStats(download[w].receiptId)
          /\ DownloadEnd(w, download[w],
                         DownloadStatus(download[w].format).status,
                         DownloadStatus(download[w].format).error)
       \/ /\ UNCHANGED receiptTable
          /\ DownloadEnd(w, [download[w] EXCEPT !.thrown = "db.update"],
                         500, "Internal server error")
    /\ UNCHANGED <<lookupVars, guestVars, resend, webhookSecret,
                   paymentIntent, currentCredits, creditTransactionTable,
                   webhook, confirm, receiptCall>>

\* --------------------------------------------------- resend of a receipt
\* The POST route of /api/receipts/resend and resendReceiptEmailAction: the
\* same steps, the route answering with a status and the action throwing.
\* Neither asks ReceiptRateLimit; the withRateLimit wrapper admits the call.
ResendRevisions == {"route", "action"}

NoReceiptId == 0

ResendReceiptIds == {NoReceiptId, 1, 9}

\* How a failure leaves the handler: the route's JSON error with its status
\* (its catch answers 500 for anything thrown), the action's thrown Error.
ResendEnd(s, k, status, error, thrown) ==
    resend' = [resend EXCEPT
        ![s] = [k EXCEPT
            !.pc = "done",
            !.status = IF k.revision = "route"
                       THEN (IF thrown # "" THEN 500 ELSE status) ELSE 0,
            !.error = IF k.revision = "route" /\ thrown # ""
                      THEN "Internal server error"
                      ELSE IF thrown # "" THEN thrown ELSE error,
            !.thrown = thrown]]

\* The session, the receipt id and the receipt of the caller.
resend_findFirst(s, callers, maxSent) ==
    /\ resend[s].pc \in {"idle", "done"}
    /\ resend[s].sent < maxSent
    /\ \E revision \in ResendRevisions, caller \in callers,
          receiptId \in ResendReceiptIds, failed \in BOOLEAN,
          hasEmail \in BOOLEAN :
        LET k == [IdleResend EXCEPT !.revision = revision,
                                    !.caller = caller,
                                    !.receiptId = receiptId,
                                    !.sent = resend[s].sent]
            receipt == {i \in DOMAIN receiptTable :
                            /\ receiptTable[i].id = receiptId
                            /\ receiptTable[i].userId = caller}
        IN
        IF caller = NoSession
        THEN ResendEnd(s, k, 401, "Authentication required", "")
        ELSE IF receiptId = NoReceiptId
        THEN ResendEnd(s, k, 400, "Receipt ID is required", "")
        ELSE IF failed
        THEN ResendEnd(s, k, 500, "", "db.query")
        ELSE IF receipt = {}
        THEN ResendEnd(s, k, 404, "Receipt not found", "")
        ELSE IF ~hasEmail
        THEN ResendEnd(s, k, 400, "User email not available", "")
        ELSE resend' = [resend EXCEPT ![s] = [k EXCEPT !.pc = "send"]]
    /\ UNCHANGED <<lookupVars, guestVars, download, webhookSecret,
                   paymentIntent, dbVars, webhook, confirm, receiptCall>>

\* getReceiptData, the rendering and sendReceiptEmail.
resend_sendReceiptEmail(s) ==
    /\ resend[s].pc = "send"
    /\ \E failed \in {"", "getReceiptData", "sendReceiptEmail"} :
        IF failed # ""
        THEN ResendEnd(s, resend[s], 500, "", failed)
        ELSE resend' = [resend EXCEPT ![s].pc = "mark",
                                      ![s].sent = resend[s].sent + 1]
    /\ UNCHANGED <<lookupVars, guestVars, download, webhookSecret,
                   paymentIntent, dbVars, webhook, confirm, receiptCall>>

markReceiptEmailSent_rerenders(receiptId) ==
    [i \in DOMAIN receiptTable |->
        IF receiptTable[i].id = receiptId
        THEN [receiptTable[i] EXCEPT !.emailSent = TRUE,
                                     !.htmlContent = "html again"]
        ELSE receiptTable[i]]

\* markReceiptEmailSent: emailSent is set.
markReceiptEmailSent(receiptId) ==
    [i \in DOMAIN receiptTable |->
        IF receiptTable[i].id = receiptId
        THEN [receiptTable[i] EXCEPT !.emailSent = TRUE]
        ELSE receiptTable[i]]

\* markReceiptEmailDelivered: emailDelivered is set.
markReceiptEmailDelivered(receiptId) ==
    [i \in DOMAIN receiptTable |->
        IF receiptTable[i].id = receiptId
        THEN [receiptTable[i] EXCEPT !.emailDelivered = TRUE]
        ELSE receiptTable[i]]

resend_markReceiptEmailSent(s) ==
    /\ resend[s].pc = "mark"
    /\ \/ /\ receiptTable' = markReceiptEmailSent(resend[s].receiptId)
          /\ resend' = [resend EXCEPT
                ![s].pc = "done",
                ![s].status = IF resend[s].revision = "route"
                              THEN 200 ELSE 0,
                ![s].error = ""]
       \/ /\ UNCHANGED receiptTable
          /\ ResendEnd(s, resend[s], 500, "", "db.update")
    /\ UNCHANGED <<lookupVars, guestVars, download, webhookSecret,
                   paymentIntent, currentCredits, creditTransactionTable,
                   webhook, confirm, receiptCall>>

\* ------------------------------------------------------- guest sessions
\* checkGuestRateLimit up to its decision: the row is read, the clock is
\* read, and the call is refused or goes on to its update.  No behaviour of
\* the model lasts as long as GUEST_API_RATE_WINDOW.
checkGuestRateLimit_findFirst(g) ==
    /\ guestCall[g].pc = "idle"
    /\ guestSession.admitted < MaxGuestAdmitted
    /\ guestCall' = [guestCall EXCEPT ![g] =
            IF ~guestSession.exists
            THEN [IdleGuestCall EXCEPT !.at = now]
            ELSE IF \/ guestSession.lastApiCallAt = NoDate
                    \/ guestSession.lastApiCallAt < now - GUEST_API_RATE_WINDOW
            THEN [pc |-> "update", apiCallCount |-> 1,
                  lastApiCallAt |-> guestSession.lastApiCallAt, at |-> now,
                  allowed |-> FALSE]
            ELSE IF guestSession.apiCallCount >= GUEST_API_RATE_LIMIT
            THEN [IdleGuestCall EXCEPT
                    !.apiCallCount = guestSession.apiCallCount,
                    !.lastApiCallAt = guestSession.lastApiCallAt,
                    !.at = now]
            ELSE [pc |-> "update",
                  apiCallCount |-> guestSession.apiCallCount + 1,
                  lastApiCallAt |-> guestSession.lastApiCallAt, at |-> now,
                  allowed |-> FALSE]]
    /\ UNCHANGED <<lookupVars, accessVars, guestSession, webhookSecret,
                   paymentIntent, dbVars, webhook, confirm, receiptCall>>

\* The UPDATE writes the count the call computed from the row it read.
checkGuestRateLimit_update(g) ==
    /\ guestCall[g].pc = "update"
    /\ \/ /\ guestSession' =
                IF guestSession.exists
                THEN [guestSession EXCEPT
                        !.apiCallCount = guestCall[g].apiCallCount,
                        !.lastApiCallAt = guestCall[g].at,
                        !.admitted = @ + 1]
                ELSE [guestSession EXCEPT !.admitted = @ + 1]
          /\ guestCall' = [guestCall EXCEPT ![g].pc = "idle",
                                            ![g].allowed = TRUE]
       \/ \* the update throws
          /\ UNCHANGED guestSession
          /\ guestCall' = [guestCall EXCEPT ![g].pc = "idle",
                                            ![g].allowed = FALSE]
    /\ UNCHANGED <<lookupVars, accessVars, webhookSecret,
                   paymentIntent, dbVars, webhook, confirm, receiptCall>>

\* cleanupExpiredGuestSessions: the sessions past their expiry are deleted,
\* and nothing else.
cleanupExpiredGuestSessions ==
    /\ guestSession' =
            IF guestSession.exists /\ guestSession.expiresAt < now
            THEN [guestSession EXCEPT !.exists = FALSE]
            ELSE guestSession
    /\ UNCHANGED <<lookupVars, accessVars, guestCall, webhookSecret,
                   paymentIntent, dbVars, webhook, confirm, receiptCall>>

\* The email provider reports the delivery of a receipt's email.
emailDelivered ==
    /\ \E i \in DOMAIN receiptTable :
        /\ receiptTable[i].emailSent
        /\ receiptTable' = markReceiptEmailDelivered(receiptTable[i].id)
    /\ UNCHANGED <<lookupVars, accessVars, guestVars, webhookSecret,
                   paymentIntent, currentCredits, creditTransactionTable,
                   webhook, confirm, receiptCall>>

TickMs == WINDOW_MS \div 2

Tick ==
    /\ now + TickMs <= MaxTicks * TickMs
    /\ now' = now + TickMs
    /\ UNCHANGED <<accessVars, guestVars, webhookSecret, paymentIntent, dbVars,
                   webhook, confirm,
                   receiptCall, requests, lookup>>

NextWebhook ==
    \/ \E d \in Deliveries : POST_receive(d)
    \/ \E d \in Deliveries : POST_updateUserCredits(d)
    \/ \E d \in Deliveries : POST_logTransaction(d)
    \/ \E d \in Deliveries : POST_receiptUrl(d)

NextConfirm ==
    \/ \E c \in Confirms : confirmPayment_verify(c)
    \/ \E c \in Confirms : confirmPayment_updateUserCredits(c)
    \/ \E c \in Confirms : confirmPayment_logTransaction(c)

NextReceipt ==
    \/ \E r \in ReceiptCalls : createReceiptFromPayment_insert(r)
    \/ \E r \in ReceiptCalls : createReceiptFromPayment_link(r)
    \/ \E r \in ReceiptCalls : createReceiptFromPayment_email(r)

NextLookups ==
    \/ \E l \in Lookups :
            getReceiptInfo_begin(l, Instances, Users \cup {NoSession},
                                 LookupIds)
    \/ \E l \in Lookups : getReceiptInfo_getCreditTransactions(l)
    \/ \E l \in Lookups : getReceiptInfo_retrieve(l)

\* The requests of one holder of a token, one after another.
NextOneDownload ==
    \/ download_getReceiptByToken(1)
    \/ download_updateReceiptDownloadStats(1)

NextDownload ==
    \/ \E w \in Downloads : download_getReceiptByToken(w)
    \/ \E w \in Downloads : download_updateReceiptDownloadStats(w)

NextResend ==
    \/ \E s \in Resends : resend_findFirst(s, Users \cup {NoSession}, MaxResent)
    \/ \E s \in Resends : resend_sendReceiptEmail(s)
    \/ \E s \in Resends : resend_markReceiptEmailSent(s)

NextGuest ==
    \/ \E g \in GuestCalls : checkGuestRateLimit_findFirst(g)
    \/ \E g \in GuestCalls : checkGuestRateLimit_update(g)

Next ==
    \/ NextWebhook
    \/ NextConfirm
    \/ NextReceipt
    \/ NextLookups
    \/ NextDownload
    \/ NextResend
    \/ NextGuest
    \/ cleanupExpiredGuestSessions
    \/ emailDelivered
    \/ Tick

\* A single delivery of the webhook.
NextOneDelivery ==
    \/ POST_receive(1)
    \/ POST_updateUserCredits(1)
    \/ POST_logTransaction(1)
    \/ POST_receiptUrl(1)

\* The webhook deliveries alone: the fulfilment path, any number of
\* deliveries of the event overlapping or following one another.
Spec == Init /\ [][NextWebhook]_vars

\* One webhook delivery racing the client's confirmPayment calls.
SpecConfirm == Init /\ [][NextOneDelivery \/ NextConfirm]_vars

\* A single call of the receipt generator.
NextOneReceiptCall ==
    \/ createReceiptFromPayment_insert(1)
    \/ createReceiptFromPayment_link(1)
    \/ createReceiptFromPayment_email(1)

\* One webhook delivery and one call of the receipt generator.
SpecReceipt == Init /\ [][NextOneDelivery \/ NextOneReceiptCall]_vars

\* A deployment whose webhook secret is configured and whose payment intent
\* is one createPaymentIntent made: metadata { userId, packageId, credits }
\* of the session's user and of a package of the catalog.
InitConfigured ==
    /\ Init
    /\ webhookSecret = "whsec"
    /\ paymentIntent.metadata =
            [userId |-> "u1", packageId |-> "p100", credits |-> "1200"]

\* One webhook delivery and any number of calls of the receipt generator,
\* overlapping or following one another.
SpecReceiptCalls == InitConfigured /\ [][NextOneDelivery \/ NextReceipt]_vars

\* One caller at a time asking one instance for receipts.
NextLookup ==
    \/ getReceiptInfo_begin(1, {1}, Users \cup {NoSession}, LookupIds)
    \/ getReceiptInfo_getCreditTransactions(1)
    \/ getReceiptInfo_retrieve(1)

\* One webhook delivery and the receipt lookups of the users.
SpecLookup == InitConfigured /\ [][NextOneDelivery \/ NextLookup]_vars

\* One user asking one instance again and again while time passes.
NextRateLimit ==
    \/ Tick
    \/ getReceiptInfo_begin(1, {1}, {"u1"}, LookupIds)
    \/ getReceiptInfo_getCreditTransactions(1)

SpecRateLimit == InitConfigured /\ [][NextRateLimit]_vars

\* One user's requests in parallel on the instances of the service, within
\* one window.
NextInstances ==
    \/ \E l \in Lookups :
            getReceiptInfo_begin(l, Instances, {"u1"}, {PaymentIntentId})
    \/ \E l \in Lookups : getReceiptInfo_getCreditTransactions(l)

SpecInstances == InitConfigured /\ [][NextInstances]_vars

\* One webhook delivery, one call of the receipt generator and the
\* downloads of whoever holds a token.
SpecDownload ==
    InitConfigured
        /\ [][NextOneDelivery \/ NextOneReceiptCall \/ NextOneDownload]_vars

\* One user asking for a receipt's email again and again, no time passing.
NextOneResend ==
    \/ resend_findFirst(1, {"u1", NoSession}, MaxResent)
    \/ resend_sendReceiptEmail(1)
    \/ resend_markReceiptEmailSent(1)

\* One webhook delivery, one call of the receipt generator and the resends
\* of the receipt's owner within one window.
SpecResend ==
    InitConfigured
        /\ [][NextOneDelivery \/ NextOneReceiptCall \/ NextOneResend]_vars

\* The requests that carry one guest session, in parallel, within one
\* window.
SpecGuest == InitConfigured /\ [][NextGuest]_vars

\* The database after the fulfilment of u1's payment for p100: the balance
\* granted and the purchase in the ledger, no call under way.
InitFulfilled ==
    /\ webhookSecret = "whsec"
    /\ paymentIntent =
            [status |-> "succeeded",
             metadata |-> [userId |-> "u1", packageId |-> "p100",
                           credits |-> "1200"]]
    /\ currentCredits = [u \in Users |-> IF u = "u1" THEN 1200 ELSE 0]
    /\ creditTransactionTable =
            <<[id |-> 1, userId |-> "u1", amount |-> 1200,
               type |-> "PURCHASE", expirationDate |-> "now+years",
               paymentIntentId |-> PaymentIntentId,
               receiptUrl |-> "", receiptEmailSent |-> FALSE,
               receiptId |-> 0]>>
    /\ receiptTable = <<>>
    /\ guestSession = NewGuestSession
    /\ InitCalls

\* The owner's resends of the receipt, a few.
NextFewResends ==
    \/ resend_findFirst(1, {"u1"}, MaxFrameResent)
    \/ resend_sendReceiptEmail(1)
    \/ resend_markReceiptEmailSent(1)

\* Everything that writes a receipt: the generator, the downloads, the
\* resends and the delivery reports.
SpecReceiptFrame ==
    InitFulfilled
        /\ [][NextOneReceiptCall \/ NextOneDownload \/ NextFewResends
                \/ emailDelivered]_vars

\* A configured deployment with a guest session that may have expired.
InitLedger ==
    /\ webhookSecret = "whsec"
    /\ paymentIntent \in
            [status : {"processing", "succeeded"},
             metadata : {[userId |-> "u1", packageId |-> "p100",
                          credits |-> "1200"]}]
    /\ currentCredits = [u \in Users |-> 0]
    /\ creditTransactionTable = <<>>
    /\ receiptTable = <<>>
    /\ guestSession \in {NewGuestSession, ExpiredGuestSession}
    /\ InitCalls

\* One webhook delivery with its fetch of the receipt URL, one call of the
\* receipt generator, the owner's resends and the cleanup of guest sessions.
SpecLedger ==
    InitLedger
        /\ [][NextOneDelivery \/ NextOneReceiptCall \/ NextFewResends
                \/ cleanupExpiredGuestSessions]_vars

\* Everything.
SpecAll == Init /\ [][Next]_vars

\* ============================================================ properties
Metadata == paymentIntent.metadata

\* The PURCHASE rows of the ledger that carry the payment reference.
Purchases(paymentIntentId) ==
    {i \in DOMAIN creditTransactionTable :
        /\ creditTransactionTable[i].type = "PURCHASE"
        /\ creditTransactionTable[i].paymentIntentId = paymentIntentId}

\* The sum of the amounts of the first n ledger rows of the user.
RECURSIVE LedgerSum(_, _)
LedgerSum(u, n) ==
    IF n = 0 THEN 0
    ELSE LedgerSum(u, n - 1) +
         (IF creditTransactionTable[n].userId = u
          THEN creditTransactionTable[n].amount ELSE 0)

\* Metadata that can never be fulfilled: a field is absent, the package is
\* not in the catalog, or the credit amount is not the catalog's.
StructurallyInvalid(m) ==
    \/ m.userId \in {Undefined, ""}
    \/ m.packageId \in {Undefined, ""}
    \/ m.credits \in {Undefined, ""}
    \/ m.packageId \notin DOMAIN CREDIT_PACKAGES
    \/ parseInt(m.credits).nan
    \/ parseInt(m.credits).val # CREDIT_PACKAGES[m.packageId]

\* The delivery is a verified payment_intent.succeeded event.
SucceededEvent(d) ==
    /\ webhook[d].pc # "idle"
    /\ webhookSecret # Undefined
    /\ webhook[d].signature = "valid"
    /\ webhook[d].type = "payment_intent.succeeded"

WebhooksQuiescent == \A d \in Deliveries : webhook[d].pc \in {"idle", "done"}

NoDatabaseFailure ==
    \A d \in Deliveries :
        webhook[d].thrown \notin {"updateUserCredits", "logTransaction"}

\* C1: when deliveries of the same payment_intent.succeeded event overlap
\* (none arrived after another had completed) and all have returned
\* without a database failure, the ledger has exactly one PURCHASE row for
\* the payment reference and the user's balance is one package's credits.
C1_ExactlyOneGrantPerReference ==
    (/\ WebhooksQuiescent
     /\ NoDatabaseFailure
     /\ \A d \in Deliveries : ~webhook[d].redelivered
     /\ \E d \in Deliveries : SucceededEvent(d) /\ webhook[d].transaction # 0)
    => /\ Cardinality(Purchases(PaymentIntentId)) = 1
       /\ currentCredits[Metadata.userId] = CREDIT_PACKAGES[Metadata.packageId]

\* C2: a payment_intent.succeeded event delivered again after a delivery
\* of it completed its grant returns success and inserts no Transaction.
C2_RedeliveryIsIdempotent ==
    \A d \in Deliveries :
        (SucceededEvent(d) /\ webhook[d].redelivered /\ webhook[d].pc = "done"
            /\ webhook[d].thrown \notin {"updateUserCredits", "logTransaction"})
        => /\ webhook[d].status = StatusOK
           /\ webhook[d].transaction = 0

\* C3: when one webhook delivery and one confirmPayment call for the same
\* payment reference have both returned success (and nothing else ran),
\* exactly one PURCHASE row exists and the balance is one package's
\* credits.
C3_RaceConvergesOnOneGrant ==
    \A c \in Confirms, d \in Deliveries :
        (/\ confirm[c].pc = "done" /\ confirm[c].result = "success"
         /\ SucceededEvent(d) /\ webhook[d].pc = "done"
         /\ webhook[d].status = StatusOK
         /\ \A e \in Deliveries \ {d} : webhook[e].pc = "idle"
         /\ \A k \in Confirms \ {c} : confirm[k].pc = "idle")
        => /\ Cardinality(Purchases(PaymentIntentId)) = 1
           /\ currentCredits[confirm[c].caller] =
                CREDIT_PACKAGES[confirm[c].packageId]

\* C4: whenever no delivery is in flight, also after a failure between the
\* two writes, every user's balance is the sum of the user's ledger rows.
C4_BalanceEqualsLedgerSum ==
    WebhooksQuiescent =>
        \A u \in Users :
            currentCredits[u] = LedgerSum(u, Len(creditTransactionTable))

\* C5: a verified payment_intent.succeeded event whose metadata lacks a
\* field, names no catalog package or claims another credit amount than
\* the catalog's is finished by the handler without a database call, and
\* no step changes a balance or the ledger.
C5_StructuralRejectWritesNothing ==
    /\ [](\A d \in Deliveries :
            (SucceededEvent(d) /\ StructurallyInvalid(Metadata))
            => webhook[d].pc = "done" /\ webhook[d].transaction = 0)
    /\ [][StructurallyInvalid(Metadata)
            => UNCHANGED <<currentCredits, creditTransactionTable>>]_vars

C5_Witness ==
    \E d \in Deliveries :
        /\ SucceededEvent(d) /\ webhook[d].pc = "done"
        /\ Metadata.userId = "u1" /\ Metadata.packageId = "p100"
        /\ Metadata.credits = "500"
        /\ creditTransactionTable = <<>>
        /\ currentCredits["u1"] = 0

\* C6: a verified event that is structurally unfulfillable, or whose type
\* the handler does not know, is answered with the success acknowledgement.
C6_UnfulfillableIsAcknowledged ==
    \A d \in Deliveries :
        (/\ webhook[d].pc = "done"
         /\ webhookSecret # Undefined
         /\ webhook[d].signature = "valid"
         /\ \/ webhook[d].type \notin {"payment_intent.succeeded",
                                       "payment_intent.payment_failed"}
            \/ /\ webhook[d].type = "payment_intent.succeeded"
               /\ StructurallyInvalid(Metadata))
        => webhook[d].status = StatusOK /\ webhook[d].error = ""

C6_Witness ==
    \E d, e \in Deliveries :
        /\ webhook[d].pc = "done" /\ webhook[d].signature = "valid"
        /\ webhook[d].type = "charge.refunded"
        /\ webhook[d].status = StatusOK
        /\ SucceededEvent(e) /\ webhook[e].pc = "done"
        /\ StructurallyInvalid(Metadata)
        /\ webhook[e].status = StatusOK

\* The request cannot be verified: no secret, no header, or a signature
\* that does not match.
Unverifiable(d) ==
    /\ webhook[d].pc # "idle"
    /\ \/ webhookSecret = Undefined
       \/ webhook[d].signature \in {"none", "bad"}

\* C7 as claimed: every unverifiable request is answered with an
\* authentication (4xx) error.
C7_UnverifiableGetsAuthenticationError ==
    \A d \in Deliveries :
        Unverifiable(d) => webhook[d].status \in {400, 401, 403}

\* C7 as amended: a request with a missing or mismatching signature is
\* answered 400 and a request received without a configured secret is
\* answered 500, whatever the body; it ends in the first step, and that
\* step changes no balance, ledger or receipt row.
C7_UnverifiableIsRejectedBeforeAnyWrite ==
    /\ [](\A d \in Deliveries :
            Unverifiable(d)
            => /\ webhook[d].pc = "done"
               /\ webhook[d].transaction = 0
               /\ webhook[d].status =
                    IF webhookSecret = Undefined THEN StatusServerError
                    ELSE StatusBadRequest)
    /\ [][\A d \in Deliveries :
            (webhook[d].pc = "idle" /\ webhook'[d].pc # "idle")
            => UNCHANGED dbVars]_vars

C7_Witness ==
    \E d, e \in Deliveries :
        /\ webhook[d].pc = "done" /\ webhook[e].pc = "done"
        /\ webhook[d].signature = "bad" /\ webhook[e].signature = "bad"
        /\ webhook[d].body = ""
        /\ webhook[e].body = "event"
        /\ webhook[e].type = "payment_intent.succeeded"
        /\ webhook[d].status = StatusBadRequest
        /\ webhook[e].status = StatusBadRequest
        /\ creditTransactionTable = <<>>

\* C8: a delivery whose balance update or Transaction insert threw is
\* answered with the server error.
C8_TransientFailureIsServerError ==
    \A d \in Deliveries :
        (webhook[d].pc = "done"
            /\ webhook[d].thrown \in {"updateUserCredits", "logTransaction"})
        => webhook[d].status = StatusServerError

C8_Witness ==
    \E d \in Deliveries :
        /\ webhook[d].pc = "done"
        /\ webhook[d].thrown = "logTransaction"
        /\ webhook[d].status = StatusServerError

\* C9: a delivery that inserted its Transaction is answered with success
\* whatever the receipt step did, its row stays in the ledger, and no step
\* (of the webhook or of the receipt generator, failing or not) lowers a
\* balance, removes a ledger row or changes a row's owner, amount, type or
\* payment reference.
C9_GrantIsFinal ==
    /\ [](\A d \in Deliveries :
            (webhook[d].pc = "done" /\ webhook[d].transaction # 0)
            => /\ webhook[d].status = StatusOK
               /\ webhook[d].transaction \in DOMAIN creditTransactionTable)
    /\ [][/\ \A u \in Users : currentCredits'[u] >= currentCredits[u]
          /\ Len(creditTransactionTable') >= Len(creditTransactionTable)
          /\ \A i \in DOMAIN creditTransactionTable :
                /\ creditTransactionTable'[i].userId =
                        creditTransactionTable[i].userId
                /\ creditTransactionTable'[i].amount =
                        creditTransactionTable[i].amount
                /\ creditTransactionTable'[i].type =
                        creditTransactionTable[i].type
                /\ creditTransactionTable'[i].paymentIntentId =
                        creditTransactionTable[i].paymentIntentId]_vars

C9_Witness ==
    \E d \in Deliveries, r \in ReceiptCalls :
        /\ webhook[d].pc = "done" /\ webhook[d].transaction # 0
        /\ webhook[d].thrown = "db.update"
        /\ webhook[d].status = StatusOK
        /\ receiptCall[r].pc = "done" /\ receiptCall[r].result = "error"
        /\ receiptCall[r].transactionId = webhook[d].transaction
        /\ receiptCall[r].thrown = "db.update"
        /\ currentCredits["u1"] = CREDIT_PACKAGES.p100
        /\ Len(creditTransactionTable) = 1

\* C10: once a delivery has fulfilled its Transaction and returned, a
\* Receipt row for that Transaction exists with non-empty content.
C10_FulfilledTransactionHasReceipt ==
    \A d \in Deliveries :
        (webhook[d].pc = "done" /\ webhook[d].status = StatusOK
            /\ webhook[d].transaction # 0)
        => \E i \in DOMAIN receiptTable :
            /\ receiptTable[i].transactionId = webhook[d].transaction
            /\ receiptTable[i].htmlContent # ""

\* ------------------------------------------------------------------------
\* The receipt generator

\* What makes createReceiptFromPayment throw when the payment's card data is
\* not the cause: the payment intent cannot be retrieved or is not succeeded,
\* the transaction does not exist, or a database write fails.
OtherReceiptFailures ==
    {"paymentIntents.retrieve", "Payment intent is not successful",
     "User or transaction not found", "db.insert", "db.update"}

CardDataUnavailable(r) ==
    /\ receiptCall[r].pc # "idle"
    /\ receiptCall[r].charge \in {"none", "throws"}

EmailFailed(r) ==
    /\ receiptCall[r].pc = "done"
    /\ receiptCall[r].thrown = "sendReceiptEmail"

\* C12: a failure to send the receipt email does not fail the creation of
\* the receipt: the call returns normally with its receipt row in the table,
\* the step in which the send fails changes neither the receipt table nor
\* the transaction table (the row stays, the link stays, emailSent is not
\* set), and emailSent of that receipt is false.
C12_EmailFailureKeepsReceipt ==
    /\ [](\A r \in ReceiptCalls :
            EmailFailed(r) =>
                /\ receiptCall[r].result = "returned"
                /\ receiptCall[r].receiptId \in DOMAIN receiptTable
                /\ ~receiptTable[receiptCall[r].receiptId].emailSent
                /\ creditTransactionTable[receiptCall[r].transactionId]
                        .receiptId # 0)
    /\ [][\A r \in ReceiptCalls :
            (receiptCall[r].pc = "email" /\ EmailFailed(r)') =>
                UNCHANGED <<receiptTable, creditTransactionTable>>]_vars

C12_Witness ==
    \E r \in ReceiptCalls :
        /\ EmailFailed(r)
        /\ receiptCall[r].result = "returned"
        /\ creditTransactionTable[receiptCall[r].transactionId].receiptId =
                receiptCall[r].receiptId
        /\ ~receiptTable[receiptCall[r].receiptId].emailSent

\* C13: every transaction has at most one receipt.
C13_AtMostOneReceiptPerTransaction ==
    \A i, j \in DOMAIN receiptTable :
        receiptTable[i].transactionId = receiptTable[j].transactionId
            => i = j

\* ------------------------------------------------------------------------
\* The receipt lookup

OwnsReference(caller, id) ==
    \E t \in DOMAIN creditTransactionTable :
        /\ creditTransactionTable[t].paymentIntentId = id
        /\ creditTransactionTable[t].userId = caller

\* The reference is of a transaction of another user, and of none of the
\* caller's.
ForeignReference(caller, id) ==
    /\ ~OwnsReference(caller, id)
    /\ \E t \in DOMAIN creditTransactionTable :
            creditTransactionTable[t].paymentIntentId = id

\* No transaction has the reference.
NoSuchReference(id) ==
    \A t \in DOMAIN creditTransactionTable :
        creditTransactionTable[t].paymentIntentId # id

Outcome(l) ==
    [result |-> lookup[l].result, kind |-> lookup[l].kind,
     error |-> lookup[l].error]

NotOwnedOutcome ==
    [result |-> "error", kind |-> "AUTHORIZATION_ERROR",
     error |-> "You do not have permission to view this receipt."]

\* The step of call l that reads the ledger and ends the call, the database
\* answering.
OwnershipChecked(l) ==
    /\ lookup[l].pc = "getCreditTransactions"
    /\ lookup'[l].pc # "getCreditTransactions"
    /\ lookup'[l].thrown # "D1_ERROR"

\* C14: a well-formed reference of a transaction that belongs to another
\* user and a well-formed reference that no transaction has end the lookup
\* with one and the same outcome (same kind, same message), and a lookup
\* that ends in an error carries no receipt data.
C14_ForeignLooksLikeNonexistent ==
    /\ [][\A l \in Lookups :
            /\ (/\ OwnershipChecked(l)
                /\ ForeignReference(lookup[l].caller,
                                    lookup[l].paymentIntentId))
                    => (lookup'[l].pc = "done" /\ Outcome(l)' = NotOwnedOutcome)
            /\ (/\ OwnershipChecked(l)
                /\ NoSuchReference(lookup[l].paymentIntentId))
                    => (lookup'[l].pc = "done" /\ Outcome(l)' = NotOwnedOutcome)
          ]_vars
    /\ [](\A l \in Lookups :
            lookup[l].result = "error" =>
                lookup[l].rawUrl = "" /\ lookup[l].receiptUrl = "")

C14_Witness ==
    \E l \in Lookups :
        /\ lookup[l].pc = "done"
        /\ lookup[l].caller = "u2"
        /\ ForeignReference("u2", lookup[l].paymentIntentId)
        /\ OwnsReference("u1", lookup[l].paymentIntentId)
        /\ Outcome(l) = NotOwnedOutcome
        /\ lookup[l].receiptUrl = ""

\* ------------------------------------------------------------------------
\* The limiter of the receipt lookup

\* The requests of user u that instance i admitted in the last WINDOW_MS.
Admissions(i, u) ==
    Cardinality({k \in DOMAIN requests[i][u] :
                    now - requests[i][u][k] < WINDOW_MS})

\* The step in which call l comes to the limiter: it begins, with a session
\* and a well-formed id.
ReachedLimiter(l) ==
    /\ lookup[l].pc \in {"idle", "done"}
    /\ lookup'[l] # lookup[l]
    /\ lookup'[l].thrown \notin
            {"Unauthorized", "Invalid payment intent ID format"}

Throttled(l) ==
    /\ lookup[l].pc = "done"
    /\ lookup[l].thrown = TooManyRequests

WindowElapsed(i, u) ==
    \A k \in DOMAIN requests[i][u] : now - requests[i][u][k] >= WINDOW_MS

\* C16: a request that comes once the window has elapsed since the user's
\* recorded requests is admitted, whatever happened before, so a throttled
\* user is admitted again.
C16_ThrottlingIsNotPermanent ==
    [][\A l \in Lookups :
        (/\ ReachedLimiter(l)
         /\ WindowElapsed(lookup'[l].instance, lookup'[l].caller))
            => lookup'[l].pc = "getCreditTransactions"]_vars

C16_Witness ==
    /\ lookup[1].pc = "getCreditTransactions"
    /\ lookup[1].throttledBefore
    /\ requests[lookup[1].instance][lookup[1].caller] = <<lookup[1].at>>

\* C17: the step that refuses a request at the limiter ends the call
\* without reading or writing the database, adds no entry to the user's
\* recorded requests and leaves the number of admissions in the window as
\* it was.
C17_RejectedIsNotRecorded ==
    [][\A l \in Lookups, i \in Instances, u \in Users :
        (/\ ReachedLimiter(l)
         /\ Throttled(l)'
         /\ lookup'[l].instance = i
         /\ lookup'[l].caller = u) =>
            /\ Len(requests'[i][u]) <= Len(requests[i][u])
            /\ Admissions(i, u)' = Admissions(i, u)
            /\ UNCHANGED dbVars]_vars

C17_Witness ==
    /\ Throttled(1)
    /\ lookup[1].at = TickMs
    /\ Len(requests[1][lookup[1].caller]) = MAX_REQUESTS_PER_MINUTE
    /\ \A k \in DOMAIN requests[1][lookup[1].caller] :
            requests[1][lookup[1].caller][k] = 0

RECURSIVE TotalAdmissions(_, _)
TotalAdmissions(instances, u) ==
    IF instances = {} THEN 0
    ELSE LET i == CHOOSE x \in instances : TRUE
         IN  Admissions(i, u) + TotalAdmissions(instances \ {i}, u)

\* C18: the requests of a user admitted within one window, on all the
\* instances of the service together, never exceed the limit.
C18_AdmittedAcrossInstancesWithinLimit ==
    \A u \in Users :
        TotalAdmissions(Instances, u) <= MAX_REQUESTS_PER_MINUTE

\* What the caller gets for a malformed id (a validation error) and for a
\* reference that is not the caller's (an authorization error).
ValidationOutcome == handleError("Invalid payment intent ID format")

AuthorizationOutcome == handleError("Transaction not found or unauthorized")

\* C19: the error a throttled caller receives differs in kind and in
\* message from the validation error and from the authorization errors.
C19_ThrottlingErrorIsDistinct ==
    \A l \in Lookups :
        Throttled(l) =>
            /\ lookup[l].kind \notin
                    {ValidationOutcome.type, AuthorizationOutcome.type}
            /\ lookup[l].error \notin
                    {ValidationOutcome.userMessage,
                     AuthorizationOutcome.userMessage, "Unauthorized"}

AllowedHosts ==
    {<<"s", "t", "r", "i", "p", "e", ".", "c", "o", "m">>,
     <<"s", "t", "r", "i", "p", "e", "-", "i", "m", "a", "g",
      "e", "s", ".", "c", "o", "m">>}

EndsWith(s, t) ==
    /\ Len(s) >= Len(t)
    /\ SubSeq(s, Len(s) - Len(t) + 1, Len(s)) = t

\* The host is a host of the allow-list or a subdomain of one.
OnAllowList(hostname) ==
    \E a \in AllowedHosts :
        hostname = a \/ EndsWith(hostname, <<".">> \o a)

\* C20: the receipt URL a lookup returns is null unless the URL the gateway
\* gave parses and its host is on the allow-list.
C20_UnlistedHostIsAbsent ==
    \A l \in Lookups :
        (/\ lookup[l].result = "receiptInfo"
         /\ ~(/\ URL(lookup[l].rawUrl).ok
              /\ OnAllowList(URL(lookup[l].rawUrl).hostname)))
            => lookup[l].receiptUrl = Null

\* The position of the first "@" of s, or one past its end.
\* C22: a download by token needs no session; when the token is some
\* receipt's, the handler's update adds exactly one to that receipt's
\* download count and sets its last-download time to the current time,
\* leaving every other receipt as it was; when the token is no receipt's,
\* the response is 404 and no receipt changes.
C22_DownloadByTokenCounts ==
    [][\A w \in Downloads :
        /\ (/\ download[w].pc = "stats"
            /\ download'[w].pc = "done"
            /\ download'[w].thrown = "") =>
                \A i \in DOMAIN receiptTable :
                    IF receiptTable[i].downloadToken = download[w].token
                    THEN receiptTable'[i] =
                            [receiptTable[i] EXCEPT
                                !.downloadCount =
                                    receiptTable[i].downloadCount + 1,
                                !.lastDownloaded = now]
                    ELSE receiptTable'[i] = receiptTable[i]
        /\ (download[w].pc # "stats" /\ download'[w] # download[w]) =>
                /\ receiptTable' = receiptTable
                /\ (/\ download'[w].token # NoToken
                    /\ download'[w].thrown = ""
                    /\ \A i \in DOMAIN receiptTable :
                         receiptTable[i].downloadToken # download'[w].token)
                        => download'[w].status = 404
                /\ (\E i \in DOMAIN receiptTable :
                         receiptTable[i].downloadToken = download'[w].token
                            /\ download'[w].thrown = "")
                        => download'[w].pc = "stats"]_vars

\* Two downloads of one receipt have been counted, and the download after
\* them, with a token of no receipt, was answered 404.
C22_Witness ==
    /\ \E i \in DOMAIN receiptTable : receiptTable[i].downloadCount = 2
    /\ \E w \in Downloads :
            download[w].pc = "done" /\ download[w].status = 404

\* C23: the resend is limited as the owner lookup is: within one window
\* no identity has more than MAX_REQUESTS_PER_MINUTE resend requests pass;
\* the request after them is rejected before its email is dispatched, so
\* at most MAX_REQUESTS_PER_MINUTE emails are dispatched.
C23_ResendIsRateLimited ==
    \A s \in Resends : resend[s].sent <= MAX_REQUESTS_PER_MINUTE

\* The messages written for the caller: the userMessage texts of the error
\* handler and the message of the session check.
UserSafeMessages ==
    {"Receipt information is not available for this transaction.",
     "Unable to verify receipt information. Please try again later.",
     "Unable to connect to payment service. Please try again later.",
     "Service is temporarily busy. Please try again in a moment.",
     "You do not have permission to view this receipt.",
     "Receipt not found for this transaction.",
     "Receipt not available for test transactions. Try with a live payment in production.",
     "Network error occurred. Please check your connection and try again.",
     "Unable to process receipt request. Please try again.",
     "An unexpected error occurred. Please try again later.",
     "Unauthorized"}

\* What the gateway and the database throw.
InternalExceptions ==
    {"StripeInvalidRequestError", "StripeAuthenticationError",
     "StripeConnectionError", "StripeAPIError", "StripeRateLimitError",
     "StripeCardError", "D1_ERROR"}

\* C24: every error the receipt lookup returns to its caller carries one of
\* a fixed set of user-safe messages, and never the text of the exception
\* the gateway or the database threw.
C24_ErrorsAreGeneric ==
    \A l \in Lookups :
        (lookup[l].pc = "done" /\ lookup[l].result = "error") =>
            /\ lookup[l].error \in UserSafeMessages
            /\ lookup[l].error \notin InternalExceptions

\* A lookup whose database query threw, and one whose gateway call threw,
\* ended with a message of the set.
C24_Witness ==
    \E l \in Lookups :
        /\ lookup[l].pc = "done"
        /\ lookup[l].thrown \in InternalExceptions
        /\ lookup[l].error \in UserSafeMessages

MalformedIds == {"pi_", "pi_a-b"}

\* C26: a lookup of a session's user with a malformed reference ends at the
\* validation: the step that takes the reference ends the call with the
\* validation error, writes no rate-limit record and reads no ledger, and
\* no call with such a reference is ever at the ledger query or at the
\* gateway call, or returns receipt data.
C26_ValidationPrecedesDownstream ==
    /\ [](\A l \in Lookups :
            lookup[l].paymentIntentId \in MalformedIds =>
                /\ lookup[l].pc \notin {"getCreditTransactions", "retrieve"}
                /\ lookup[l].result # "receiptInfo")
    /\ [][\A l \in Lookups :
            (/\ lookup[l].pc \in {"idle", "done"}
             /\ lookup'[l] # lookup[l]
             /\ lookup'[l].caller \in Users
             /\ lookup'[l].paymentIntentId \in MalformedIds) =>
                /\ lookup'[l].pc = "done"
                /\ lookup'[l].thrown = "Invalid payment intent ID format"
                /\ lookup'[l].kind = "VALIDATION_ERROR"
                /\ requests' = requests
                /\ UNCHANGED dbVars]_vars

\* A user's lookup with a malformed reference was refused after an earlier
\* request of the user had been recorded.
C26_Witness ==
    \E l \in Lookups :
        /\ lookup[l].pc = "done"
        /\ lookup[l].caller \in Users
        /\ lookup[l].paymentIntentId \in MalformedIds
        /\ lookup[l].thrown = "Invalid payment intent ID format"
        /\ Len(requests[lookup[l].instance][lookup[l].caller]) = 1

\* A receipt row differs from what it was at most in its download count,
\* its last-download time and its email-sent and email-delivered marks.
OnlyStatsAndEmailMarks(was, is) ==
    is = [was EXCEPT !.downloadCount = is.downloadCount,
                     !.lastDownloaded = is.lastDownloaded,
                     !.emailSent = is.emailSent,
                     !.emailDelivered = is.emailDelivered]

\* C27: no step removes a receipt, and a step changes an existing receipt
\* at most in its download count and last-download time and in its
\* email-sent and email-delivered marks: its token, transaction, amount,
\* payment method and rendered snapshot stay as they were created.
C27_ReceiptFrame ==
    [][/\ Len(receiptTable') >= Len(receiptTable)
       /\ \A i \in DOMAIN receiptTable :
            OnlyStatsAndEmailMarks(receiptTable[i], receiptTable'[i])]_vars

\* A receipt that has been downloaded, resent and reported delivered.
C27_Witness ==
    /\ \E i \in DOMAIN receiptTable :
        /\ receiptTable[i].downloadCount > 0
        /\ receiptTable[i].emailSent
        /\ receiptTable[i].emailDelivered
    /\ \E s \in Resends : resend[s].pc = "done" /\ resend[s].sent > 0

OnlyReceiptColumns(was, is) ==
    is = [was EXCEPT !.receiptId = is.receiptId,
                     !.receiptUrl = is.receiptUrl,
                     !.receiptEmailSent = is.receiptEmailSent]

C29_WebhookTransactionFields ==
    [][\A d \in Deliveries :
        /\ (/\ webhook[d].pc = "logTransaction"
            /\ webhook'[d].pc = "receiptUrl") =>
                /\ Len(creditTransactionTable') =
                        Len(creditTransactionTable) + 1
                /\ LET row == creditTransactionTable'[
                                    Len(creditTransactionTable')]
                   IN /\ row.type = "PURCHASE"
                      /\ row.userId = paymentIntent.metadata.userId
                      /\ row.paymentIntentId = PaymentIntentId
                      /\ row.paymentIntentId # ""
                      /\ row.expirationDate # ""
                      /\ row.amount =
                            CREDIT_PACKAGES[paymentIntent.metadata.packageId]
        /\ (/\ webhook[d].pc = "updateUserCredits"
            /\ webhook'[d].pc = "logTransaction") =>
                currentCredits'[paymentIntent.metadata.userId] =
                    currentCredits[paymentIntent.metadata.userId]
                        + CREDIT_PACKAGES[paymentIntent.metadata.packageId]
      ]_vars

\* A delivery has granted the 500 credits of package p50 and written its
\* Transaction of 500.
C29_Witness ==
    \E d \in Deliveries :
        /\ webhook[d].pc \in {"receiptUrl", "done"}
        /\ webhook[d].transaction \in DOMAIN creditTransactionTable
        /\ creditTransactionTable[webhook[d].transaction].amount = 500
        /\ currentCredits[paymentIntent.metadata.userId] >= 500

\* The gateway reports the payment as succeeded, its metadata names the
\* caller and the package asked for, the package is in the catalog and the
\* metadata's credits read as the package's amount.
Verified(c) ==
    /\ paymentIntent.status = "succeeded"
    /\ confirm[c].caller \in Users
    /\ paymentIntent.metadata.userId = confirm[c].caller
    /\ paymentIntent.metadata.packageId = confirm[c].packageId
    /\ confirm[c].packageId \in DOMAIN CREDIT_PACKAGES
    /\ ~parseInt(paymentIntent.metadata.credits).nan
    /\ parseInt(paymentIntent.metadata.credits).val =
            CREDIT_PACKAGES[confirm[c].packageId]

\* C30: a confirmPayment call is at a granting step or has returned success
\* only when the payment is verified for its caller and package; a call for
\* which it is not ends at once with an error, the balances and the ledger
\* as they were.
C30_ConfirmSucceedsOnlyWhenVerified ==
    /\ [](\A c \in Confirms :
            (\/ confirm[c].result = "success"
             \/ confirm[c].pc \in {"updateUserCredits", "logTransaction"})
                => Verified(c))
    /\ [][\A c \in Confirms :
            (/\ confirm[c].pc = "idle"
             /\ confirm'[c].pc # "idle"
             /\ ~Verified(c)') =>
                /\ confirm'[c].pc = "done"
                /\ confirm'[c].result = "error"
                /\ confirm'[c].error # ""
                /\ UNCHANGED dbVars]_vars

\* A call has returned success after granting its caller the credits.
C30_Witness ==
    \E c \in Confirms :
        /\ confirm[c].pc = "done"
        /\ confirm[c].result = "success"
        /\ confirm[c].revision = "granting"
        /\ currentCredits[confirm[c].caller] > 0

FirstAt(s) ==
    IF \A i \in DOMAIN s : s[i] # "@" THEN Len(s) + 1
    ELSE CHOOSE i \in DOMAIN s : s[i] = "@" /\ \A j \in 1..(i - 1) : s[j] # "@"

\* C21: the billing email a lookup returns keeps the first 2 characters of
\* the local part, has a star for every other character of the local part,
\* keeps the rest, and is never the address as the gateway gave it.
C21_BillingEmailIsMasked ==
    \A l \in Lookups :
        (lookup[l].result = "receiptInfo" /\ lookup[l].rawEmail # Null) =>
            LET raw == EmailChars(lookup[l].rawEmail)
                at == FirstAt(raw)
            IN  /\ Len(lookup[l].email) = Len(raw)
                /\ \A i \in DOMAIN raw :
                        lookup[l].email[i] =
                            IF 2 < i /\ i < at THEN "*" ELSE raw[i]
                /\ lookup[l].email # raw

====
